---- MODULE Spec2Model ----
(***************************************************************************)
(* Model of weather.py: the NWS fetcher (make_nws_request), the alert      *)
(* formatter (format_alert) and the three handlers registered on the       *)
(* FastMCP server (get_alerts, get_forecast, plan_the_evening).            *)
(*                                                                         *)
(* A Python str is modelled as the sequence of its lines (the str split on *)
(* "\n"), so "" is <<"">> and concatenation glues the last line of the     *)
(* left operand to the first line of the right one.  Values taken from the *)
(* upstream are single-line tokens.  A decoded JSON value is a tagged      *)
(* record; a dict is a function from its keys.                             *)
(***************************************************************************)
EXTENDS Integers, Sequences, FiniteSets, TLC

VARIABLES
    live,      \* invocation slots the host dispatches to in this run
    upstream,  \* which catalog of replies the upstream serves in this run
    pc,        \* per invocation: where its coroutine stands
    tool,      \* per invocation: the handler called
    arg,       \* per invocation: the handler's argument
    reqs,      \* per invocation: the URLs requested so far, in order
    got,       \* per invocation: the upstream replies received so far, in order
    ret,       \* per invocation: what make_nws_request is about to hand back
    open,      \* the AsyncClient connections open now, <<invocation, fetch number>>
    result     \* per invocation: how the handler ended

vars == <<live, upstream, pc, tool, arg, reqs, got, ret, open, result>>

(***************************************************************************)
(* Bounds of the model.                                                    *)
(***************************************************************************)
NumInv == 2        \* invocation slots of the concurrent runs
MaxAlerts == 3     \* longest features list of the single-invocation runs
MaxPeriods == 7    \* longest periods list of the single-invocation runs
ConcLen == 1       \* longest list of the concurrent runs

Inv == 1..NumInv

(***************************************************************************)
(* Program constants.                                                      *)
(***************************************************************************)
NWS_API_BASE == "https://api.weather.gov"
ShownPeriods == 5

(***************************************************************************)
(* Decoded JSON values and the Python operations the code applies to them. *)
(***************************************************************************)
JNull == [t |-> "null"]
JStr(s) == [t |-> "str", v |-> s]
JInt(n) == [t |-> "int", v |-> n]
JArr(s) == [t |-> "arr", v |-> s]
JObj(m) == [t |-> "obj", v |-> m]
EmptyDict == JObj(<<>>)

\* bool(x): None, "", 0, [] and {} are false
Truthy(x) ==
    CASE x.t = "null" -> FALSE
      [] x.t = "str" -> x.v # ""
      [] x.t = "int" -> x.v # 0
      [] x.t = "arr" -> Len(x.v) > 0
      [] x.t = "obj" -> DOMAIN x.v # {}

\* key in x, for a dict x
HasKey(x, key) == x.t = "obj" /\ key \in DOMAIN x.v

\* x[key] succeeds: x is a dict holding key (KeyError or TypeError otherwise)
CanSubscript(x, key) == HasKey(x, key)

\* x.get(key, default), for a dict x
DictGet(x, key, default) == IF key \in DOMAIN x.v THEN x.v[key] ELSE default

\* the text an f-string puts for {x}
PyStr(x) ==
    CASE x.t = "null" -> "None"
      [] x.t = "str" -> x.v
      [] x.t = "int" -> ToString(x.v)

(***************************************************************************)
(* Python str as lines.                                                    *)
(***************************************************************************)
S(s) == <<s>>

\* a + b: the last line of a and the first line of b become one line
\* (the operands are bound as values, so each is evaluated once)
Cat(a, b) ==
    CHOOSE text \in {SubSeq(p[1], 1, Len(p[1]) - 1)
                        \o <<p[1][Len(p[1])] \o p[2][1]>>
                        \o SubSeq(p[2], 2, Len(p[2])) : p \in {<<a, b>>}} : TRUE

\* variant: the separator after every item, the last included
RECURSIVE StrJoinTrailing(_, _)
StrJoinTrailing(sep, items) ==
    IF items = <<>> THEN S("")
    ELSE Cat(items[1], Cat(sep, StrJoinTrailing(sep, Tail(items))))

\* sep.join(items)
RECURSIVE StrJoin(_, _)
StrJoin(sep, items) ==
    IF items = <<>> THEN S("")
    ELSE IF Len(items) = 1 THEN items[1]
    ELSE Cat(items[1], Cat(sep, StrJoin(sep, Tail(items))))

\* "\n---\n"
SEPARATOR == <<"", "---", "">>

\* How a call ends: it returns a str or it raises; NoResult while it runs.
Return(text) == [k |-> "text", text |-> text]
Raise == [k |-> "raise"]
NoResult == [k |-> "none"]

Min(a, b) == IF a < b THEN a ELSE b

\* variant: the whole list, no slice
TakeAll(s, n) == s

\* s[:n]
Take(s, n) == SubSeq(s, 1, Min(n, Len(s)))

(***************************************************************************)
(* format_alert                                                            *)
(***************************************************************************)
AlertKeys == {"event", "areaDesc", "severity", "description", "instruction"}

\* variant: props[key] in place of props.get(key, default)
FormatAlertStrict(feature) ==
    IF ~CanSubscript(feature, "properties") THEN Raise
    ELSE LET props == feature.v["properties"] IN
         IF \E key \in AlertKeys : ~CanSubscript(props, key) THEN Raise
         ELSE Return(<<
            "Event: " \o PyStr(props.v["event"]),
            "Area: " \o PyStr(props.v["areaDesc"]),
            "Severity: " \o PyStr(props.v["severity"]),
            "Description: " \o PyStr(props.v["description"]),
            "Instructions: " \o PyStr(props.v["instruction"])>>)

\* The f-string has one "\n" at the end of each of its first four lines.
FormatAlert(feature) ==
    IF ~CanSubscript(feature, "properties") THEN Raise
    ELSE LET props == feature.v["properties"] IN
         IF props.t # "obj" THEN Raise
         ELSE Return(<<
            "Event: " \o PyStr(DictGet(props, "event", JStr("Unknown"))),
            "Area: " \o PyStr(DictGet(props, "areaDesc", JStr("Unknown"))),
            "Severity: " \o PyStr(DictGet(props, "severity", JStr("Unknown"))),
            "Description: "
                \o PyStr(DictGet(props, "description", JStr("No description available"))),
            "Instructions: "
                \o PyStr(DictGet(props, "instruction",
                                 JStr("No specific instructions provided")))>>)

(***************************************************************************)
(* The period block get_forecast builds in its loop.                       *)
(***************************************************************************)
PeriodKeys == {"name", "temperature", "temperatureUnit", "windSpeed",
               "windDirection", "detailedForecast"}

\* variant: period.get(key, default) in place of period[key]
FormatPeriodLenient(period) ==
    IF period.t # "obj" THEN Raise
    ELSE Return(<<
            PyStr(DictGet(period, "name", JStr("Unknown"))) \o ":",
            "  Temperature: " \o PyStr(DictGet(period, "temperature", JStr("Unknown")))
                \o "°" \o PyStr(DictGet(period, "temperatureUnit", JStr(""))),
            "  Wind: " \o PyStr(DictGet(period, "windSpeed", JStr("Unknown")))
                \o " " \o PyStr(DictGet(period, "windDirection", JStr(""))),
            "  Forecast: " \o PyStr(DictGet(period, "detailedForecast", JStr("Unknown")))>>)

\* The f-string has one "\n" at the end of each of its first three lines.
FormatPeriod(period) ==
    IF \E key \in PeriodKeys : ~CanSubscript(period, key) THEN Raise
    ELSE Return(<<
            PyStr(period.v["name"]) \o ":",
            "  Temperature: " \o PyStr(period.v["temperature"])
                \o "°" \o PyStr(period.v["temperatureUnit"]),
            "  Wind: " \o PyStr(period.v["windSpeed"])
                \o " " \o PyStr(period.v["windDirection"]),
            "  Forecast: " \o PyStr(period.v["detailedForecast"])>>)

\* [f(x) for x in items] followed by "\n---\n".join: raises when an f(x) raises
JoinBlocks(blocks) ==
    IF \E n \in 1..Len(blocks) : blocks[n].k = "raise" THEN Raise
    ELSE Return(StrJoin(SEPARATOR, [n \in 1..Len(blocks) |-> blocks[n].text]))

(***************************************************************************)
(* make_nws_request: the try block and its except clause.                  *)
(***************************************************************************)
Http(status, body) == [kind |-> "http", status |-> status, body |-> body]
TransportFault == [kind |-> "transport", status |-> 0, body |-> [json |-> FALSE]]
TimedOut == [kind |-> "timeout", status |-> 0, body |-> [json |-> FALSE]]
Undecodable == [json |-> FALSE]
Decodes(val) == [json |-> TRUE, val |-> val]

\* response.raise_for_status() passes
IsSuccess(status) == status >= 200 /\ status <= 299

\* The try block: the exception it raises, or the decoded body it returns.
TryBlock(reply) ==
    CASE reply.kind = "transport" -> [raised |-> TRUE, exc |-> "httpx.TransportError"]
      [] reply.kind = "timeout" -> [raised |-> TRUE, exc |-> "httpx.TimeoutException"]
      [] reply.kind = "http" /\ ~IsSuccess(reply.status) ->
            [raised |-> TRUE, exc |-> "httpx.HTTPStatusError"]
      [] reply.kind = "http" /\ IsSuccess(reply.status) /\ ~reply.body.json ->
            [raised |-> TRUE, exc |-> "json.JSONDecodeError"]
      [] OTHER -> [raised |-> FALSE, val |-> reply.body.val]

\* variant: except httpx.HTTPError, which lets a decoding error through
ExceptHttpxOnly(exc) ==
    exc \in {"httpx.TransportError", "httpx.TimeoutException", "httpx.HTTPStatusError"}

\* except Exception: every exception the try block raises is an Exception
ExceptClause(exc) ==
    exc \in {"httpx.TransportError", "httpx.TimeoutException",
             "httpx.HTTPStatusError", "json.JSONDecodeError"}

Propagates == [t |-> "exc"]

\* What the call hands to its caller: the decoded body, None, or the
\* exception the except clause let through.
MakeNwsRequest(reply) ==
    LET r == TryBlock(reply) IN
    IF ~r.raised THEN r.val
    ELSE IF ExceptClause(r.exc) THEN JNull
    ELSE Propagates

(***************************************************************************)
(* The handlers, from the point where a fetch has returned.                *)
(***************************************************************************)
AlertsUrl(state) == NWS_API_BASE \o "/alerts/active/area/" \o state
PointsUrl(coord) == NWS_API_BASE \o "/points/" \o coord[1] \o "," \o coord[2]

UNABLE_ALERTS == S("Unable to fetch alerts or no alerts found.")
NO_ALERTS == S("No active alerts for this state.")
UNABLE_POINTS == S("Unable to fetch forecast data for this location.")
UNABLE_FORECAST == S("Unable to fetch detailed forecast.")

\* variant: data.get("features", []) in place of the membership test
AlertsBodyDefaulted(data) ==
    IF ~Truthy(data) THEN Return(UNABLE_ALERTS)
    ELSE LET features == DictGet(data, "features", JArr(<<>>)) IN
         IF ~Truthy(features) THEN Return(NO_ALERTS)
         ELSE JoinBlocks([n \in 1..Len(features.v) |-> FormatAlert(features.v[n])])

\* get_alerts after data = await make_nws_request(url)
AlertsBody(data) ==
    IF ~Truthy(data) \/ ~HasKey(data, "features") THEN Return(UNABLE_ALERTS)
    ELSE LET features == data.v["features"] IN
         IF ~Truthy(features) THEN Return(NO_ALERTS)
         ELSE JoinBlocks([n \in 1..Len(features.v) |-> FormatAlert(features.v[n])])

Fetch(url) == [k |-> "fetch", url |-> url]

\* variant: a fallback forecast URL is fetched when the points lookup fails
ForecastAfterPointsUngated(points_data) ==
    IF ~Truthy(points_data) THEN Fetch(NWS_API_BASE \o "/gridpoints/TOP/31,80/forecast")
    ELSE IF ~CanSubscript(points_data, "properties") THEN Raise
    ELSE IF ~CanSubscript(points_data.v["properties"], "forecast") THEN Raise
    ELSE Fetch(points_data.v["properties"].v["forecast"].v)

\* get_forecast after points_data = await make_nws_request(points_url)
ForecastAfterPoints(points_data) ==
    IF ~Truthy(points_data) THEN Return(UNABLE_POINTS)
    ELSE IF ~CanSubscript(points_data, "properties") THEN Raise
    ELSE IF ~CanSubscript(points_data.v["properties"], "forecast") THEN Raise
    ELSE Fetch(points_data.v["properties"].v["forecast"].v)

\* get_forecast after forecast_data = await make_nws_request(forecast_url)
ForecastBody(forecast_data) ==
    IF ~Truthy(forecast_data) THEN Return(UNABLE_FORECAST)
    ELSE IF ~CanSubscript(forecast_data, "properties") THEN Raise
    ELSE IF ~CanSubscript(forecast_data.v["properties"], "periods") THEN Raise
    ELSE LET periods == forecast_data.v["properties"].v["periods"].v
             shown == Take(periods, ShownPeriods)
         IN JoinBlocks([n \in 1..Len(shown) |-> FormatPeriod(shown[n])])

\* the template ends in "\n\n" and the text follows
PlanTheEvening(text) ==
    <<"Plan the evening based on the weather forecast:", "", text>>

(***************************************************************************)
(* The upstream: what it may answer.  The "full" catalog is served to the  *)
(* single-invocation runs, the "short" one to the concurrent runs.         *)
(***************************************************************************)
SampleAlertValue(key) ==
    CASE key = "event" -> JStr("Flood Warning")
      [] key = "areaDesc" -> JStr("Sacramento Valley")
      [] key = "severity" -> JStr("Severe")
      [] key = "description" -> JStr("Heavy rain expected")
      [] key = "instruction" -> JStr("Move to higher ground")

FeatureWith(keys) ==
    JObj("properties" :> JObj([key \in keys |-> SampleAlertValue(key)]))

\* a feature whose event is null and one that has no properties at all
FeatureNullEvent ==
    JObj("properties" :> JObj(("event" :> JNull) @@ ("severity" :> JStr("Minor"))))
FeatureNoProps == JObj("id" :> JStr("urn:oid:1"))

AllFeatures ==
    {FeatureWith(keys) : keys \in SUBSET AlertKeys} \cup {FeatureNullEvent, FeatureNoProps}

SomeFeatures ==
    {FeatureWith(AlertKeys), FeatureWith({}), FeatureNullEvent, FeatureNoProps}

FeatureLists(u) ==
    IF u = "full"
    THEN {<<f>> : f \in AllFeatures}
         \cup UNION {[1..n -> SomeFeatures] : n \in 0..MaxAlerts}
    ELSE UNION {[1..n -> {FeatureWith({"event"}), FeatureNoProps}] : n \in 0..ConcLen}

PeriodA ==
    JObj([key \in PeriodKeys |->
            CASE key = "name" -> JStr("Tonight")
              [] key = "temperature" -> JInt(58)
              [] key = "temperatureUnit" -> JStr("F")
              [] key = "windSpeed" -> JStr("5 mph")
              [] key = "windDirection" -> JStr("SW")
              [] key = "detailedForecast" -> JStr("Mostly clear")])

PeriodB ==
    JObj([key \in PeriodKeys |->
            CASE key = "name" -> JStr("Monday")
              [] key = "temperature" -> JInt(0)
              [] key = "temperatureUnit" -> JStr("C")
              [] key = "windSpeed" -> JStr("10 to 15 mph")
              [] key = "windDirection" -> JStr("N")
              [] key = "detailedForecast" -> JStr("Sunny")])

Without(period, key) == JObj([k \in DOMAIN period.v \ {key} |-> period.v[k]])

\* n periods, PeriodA and PeriodB in turn, starting with either
Alternating(n, first) ==
    [m \in 1..n |-> IF (m + first) % 2 = 0 THEN PeriodA ELSE PeriodB]

\* the well-formed lists, and those with one period lacking one field
PeriodLists(max, keys) ==
    LET good == {Alternating(n, first) : n \in 0..max, first \in {0, 1}} IN
    good \cup UNION {{[l EXCEPT ![m] = Without(@, key)] : m \in 1..Len(l), key \in keys} :
                       l \in good}

ForecastUrls(u) ==
    IF u = "full"
    THEN {NWS_API_BASE \o "/gridpoints/TOP/31,80/forecast",
          NWS_API_BASE \o "/gridpoints/BOU/54,74/forecast"}
    ELSE {NWS_API_BASE \o "/gridpoints/TOP/31,80/forecast"}

ProblemDetail == JObj("title" :> JStr("Not Found"))

AlertBodies(u) ==
    {EmptyDict, ProblemDetail, JObj("features" :> JNull)}
    \cup {JObj("features" :> JArr(l)) : l \in FeatureLists(u)}

PointsBodies(u) ==
    {EmptyDict, ProblemDetail, JObj("properties" :> JNull), JObj("properties" :> EmptyDict)}
    \cup {JObj("properties" :> JObj("forecast" :> JStr(url))) : url \in ForecastUrls(u)}

ForecastBodies(u) ==
    {EmptyDict, ProblemDetail, JObj("properties" :> JObj("units" :> JStr("us")))}
    \cup {JObj("properties" :> JObj("periods" :> JArr(l))) :
            l \in IF u = "full" THEN PeriodLists(MaxPeriods, PeriodKeys)
                  ELSE PeriodLists(ConcLen, {"windSpeed"})}

Failures(u) ==
    IF u = "full"
    THEN {TransportFault, TimedOut, Http(404, Decodes(ProblemDetail)),
          Http(503, Undecodable), Http(301, Undecodable), Http(200, Undecodable)}
    ELSE {TimedOut, Http(200, Undecodable)}

Failed(reply) == TryBlock(reply).raised

\* the replies to a fetch whose decoded bodies are drawn from bodies
RepliesOver(u, bodies) == Failures(u) \cup {Http(200, Decodes(body)) : body \in bodies}

FullAlertReplies == RepliesOver("full", AlertBodies("full"))
FullPointsReplies == RepliesOver("full", PointsBodies("full"))
FullForecastReplies == RepliesOver("full", ForecastBodies("full"))
ShortAlertReplies == RepliesOver("short", AlertBodies("short"))
ShortPointsReplies == RepliesOver("short", PointsBodies("short"))
ShortForecastReplies == RepliesOver("short", ForecastBodies("short"))

\* the replies the upstream may give to the fetch invocation i has in flight
Replies(i) ==
    IF tool[i] = "get_alerts"
    THEN (IF upstream = "full" THEN FullAlertReplies ELSE ShortAlertReplies)
    ELSE IF Len(reqs[i]) = 1
    THEN (IF upstream = "full" THEN FullPointsReplies ELSE ShortPointsReplies)
    ELSE (IF upstream = "full" THEN FullForecastReplies ELSE ShortForecastReplies)

\* the arguments the host passes
States(u) == IF u = "full" THEN {"CA", "NY"} ELSE {"CA"}
Coords(u) ==
    IF u = "full" THEN {<<"39.7456", "-97.0892">>, <<"40.015", "-105.2705">>}
    ELSE {<<"39.7456", "-97.0892">>}
Texts(u) == IF u = "full" THEN {"Clear tonight, low 58F", ""} ELSE {"Clear tonight, low 58F"}

(***************************************************************************)
(* State machine.  A coroutine runs without interleaving from one await    *)
(* to the next; it is suspended in client.get ("await_get") and on leaving *)
(* the async with block, where the client is closed ("closing").           *)
(***************************************************************************)
InitWith(slots, u) ==
    /\ live = slots
    /\ upstream = u
    /\ pc = [i \in Inv |-> "idle"]
    /\ tool = [i \in Inv |-> "none"]
    /\ arg = [i \in Inv |-> <<>>]
    /\ reqs = [i \in Inv |-> <<>>]
    /\ got = [i \in Inv |-> <<>>]
    /\ ret = [i \in Inv |-> JNull]
    /\ open = {}
    /\ result = [i \in Inv |-> NoResult]

Init == InitWith({1}, "full")
InitConc == InitWith(Inv, "short")

\* the connection of the fetch invocation i has in flight
Conn(i) == <<i, Len(reqs[i])>>

\* async with httpx.AsyncClient() as client: entering opens a connection of
\* the call's own, and client.get(url, ...) is awaited
ClientEnter(i, url) ==
    /\ reqs' = [reqs EXCEPT ![i] = Append(@, url)]
    /\ open' = open \cup {<<i, Len(reqs[i]) + 1>>}
    /\ pc' = [pc EXCEPT ![i] = "await_get"]

\* variant: a client closed by hand after a successful request only
ClientExitOnSuccess(i) == IF ret[i] = JNull THEN open ELSE open \ {Conn(i)}

\* leaving the async with block closes the connection
ClientExit(i) == open \ {Conn(i)}

\* variant: the response kept in one module-level variable
AwaitedShared(i) == ret[CHOOSE j \in Inv : pc[j] = "closing"]

\* what the handler's frame reads as the value of its await
Awaited(i) == ret[i]

Finish(i, outcome) ==
    /\ pc' = [pc EXCEPT ![i] = IF outcome.k = "text" THEN "done" ELSE "fault"]
    /\ result' = [result EXCEPT ![i] = outcome]

CallGetAlerts(i, state) ==
    /\ i \in live /\ pc[i] = "idle"
    /\ tool' = [tool EXCEPT ![i] = "get_alerts"]
    /\ arg' = [arg EXCEPT ![i] = <<state>>]
    /\ ClientEnter(i, AlertsUrl(state))
    /\ UNCHANGED <<live, upstream, got, ret, result>>

CallGetForecast(i, coord) ==
    /\ i \in live /\ pc[i] = "idle"
    /\ tool' = [tool EXCEPT ![i] = "get_forecast"]
    /\ arg' = [arg EXCEPT ![i] = coord]
    /\ ClientEnter(i, PointsUrl(coord))
    /\ UNCHANGED <<live, upstream, got, ret, result>>

CallPlanTheEvening(i, text) ==
    /\ i \in live /\ pc[i] = "idle"
    /\ tool' = [tool EXCEPT ![i] = "plan_the_evening"]
    /\ arg' = [arg EXCEPT ![i] = <<text>>]
    /\ Finish(i, Return(PlanTheEvening(text)))
    /\ UNCHANGED <<live, upstream, reqs, got, ret, open>>

\* client.get completes or fails; the try block and the except clause run
Respond(i, reply) ==
    /\ pc[i] = "await_get"
    /\ got' = [got EXCEPT ![i] = Append(@, reply)]
    /\ ret' = [ret EXCEPT ![i] = MakeNwsRequest(reply)]
    /\ pc' = [pc EXCEPT ![i] = "closing"]
    /\ UNCHANGED <<live, upstream, tool, arg, reqs, open, result>>

\* variant: one retry of the same URL after a failed fetch
ResumeGetAlertsRetry(i) ==
    /\ pc[i] = "closing" /\ tool[i] = "get_alerts"
    /\ IF Awaited(i) = JNull /\ Len(reqs[i]) < 2
       THEN /\ reqs' = [reqs EXCEPT ![i] = Append(@, reqs[i][1])]
            /\ open' = ClientExit(i) \cup {<<i, Len(reqs[i]) + 1>>}
            /\ pc' = [pc EXCEPT ![i] = "await_get"]
            /\ UNCHANGED result
       ELSE /\ open' = ClientExit(i)
            /\ Finish(i, IF Awaited(i) = Propagates THEN Raise ELSE AlertsBody(Awaited(i)))
            /\ UNCHANGED reqs
    /\ UNCHANGED <<live, upstream, tool, arg, got, ret>>

\* the client is closed and get_alerts runs to its end
ResumeGetAlerts(i) ==
    /\ pc[i] = "closing" /\ tool[i] = "get_alerts"
    /\ open' = ClientExit(i)
    /\ Finish(i, IF Awaited(i) = Propagates THEN Raise ELSE AlertsBody(Awaited(i)))
    /\ UNCHANGED <<live, upstream, tool, arg, reqs, got, ret>>

\* the client is closed and get_forecast runs to its second fetch or its end
ResumeGetForecastPoints(i) ==
    /\ pc[i] = "closing" /\ tool[i] = "get_forecast" /\ Len(reqs[i]) = 1
    /\ LET next == IF Awaited(i) = Propagates THEN Raise
                   ELSE ForecastAfterPoints(Awaited(i))
       IN IF next.k = "fetch"
          THEN /\ reqs' = [reqs EXCEPT ![i] = Append(@, next.url)]
               /\ open' = ClientExit(i) \cup {<<i, Len(reqs[i]) + 1>>}
               /\ pc' = [pc EXCEPT ![i] = "await_get"]
               /\ UNCHANGED result
          ELSE /\ open' = ClientExit(i)
               /\ Finish(i, next)
               /\ UNCHANGED reqs
    /\ UNCHANGED <<live, upstream, tool, arg, got, ret>>

\* the client is closed and get_forecast runs to its end
ResumeGetForecastDetail(i) ==
    /\ pc[i] = "closing" /\ tool[i] = "get_forecast" /\ Len(reqs[i]) = 2
    /\ open' = ClientExit(i)
    /\ Finish(i, IF Awaited(i) = Propagates THEN Raise ELSE ForecastBody(Awaited(i)))
    /\ UNCHANGED <<live, upstream, tool, arg, reqs, got, ret>>

\* the upstream answers the request invocation i has in flight
Answer(i) == pc[i] = "await_get" /\ \E reply \in Replies(i) : Respond(i, reply)

Resume(i) ==
    \/ ResumeGetAlerts(i)
    \/ ResumeGetForecastPoints(i)
    \/ ResumeGetForecastDetail(i)

Next ==
    \/ \E i \in Inv, state \in States(upstream) : CallGetAlerts(i, state)
    \/ \E i \in Inv, coord \in Coords(upstream) : CallGetForecast(i, coord)
    \/ \E i \in Inv, text \in Texts(upstream) : CallPlanTheEvening(i, text)
    \/ \E i \in Inv : Answer(i)
    \/ \E i \in Inv : Resume(i)

Spec == Init /\ [][Next]_vars
SpecConc == InitConc /\ [][Next]_vars

\* every issued request runs to completion or to its timeout, and the event
\* loop resumes every coroutine that can run
Fairness ==
    \A i \in Inv :
        /\ WF_vars(Answer(i))
        /\ WF_vars(Resume(i))

FairSpec == Spec /\ Fairness

(***************************************************************************)
(* Properties.  They are stated over the upstream replies an invocation    *)
(* received (got) and over how it ended (pc, result), with the expected    *)
(* texts written out line by line.                                         *)
(***************************************************************************)
Ended(i) == pc[i] \in {"done", "fault"}
Alerts(i) == tool[i] = "get_alerts"
Forecast(i) == tool[i] = "get_forecast"

\* the k-th fetch of invocation i yielded a decoded body / yielded absence
Decoded(i, k) == Len(got[i]) >= k /\ ~Failed(got[i][k])
Absent(i, k) == Len(got[i]) >= k /\ Failed(got[i][k])
Body(i, k) == got[i][k].body.val

Returned(i, line) == pc[i] = "done" /\ result[i] = [k |-> "text", text |-> <<line>>]
Faulted(i) == pc[i] = "fault" /\ result[i] = [k |-> "raise"]

\* a field of the mapping under key outer of body is missing
Lacks(body, outer, field) ==
    ~(HasKey(body, outer) /\ HasKey(body.v[outer], field))

\* the value shown for a field of an alert: its own, or the default
Shown(props, key, default) ==
    IF key \in DOMAIN props.v THEN PyStr(props.v[key]) ELSE default

AlertLines(feature) ==
    LET props == feature.v["properties"] IN
    << "Event: " \o Shown(props, "event", "Unknown"),
       "Area: " \o Shown(props, "areaDesc", "Unknown"),
       "Severity: " \o Shown(props, "severity", "Unknown"),
       "Description: " \o Shown(props, "description", "No description available"),
       "Instructions: " \o Shown(props, "instruction", "No specific instructions provided") >>

\* a feature record of the data model: it has its properties mapping
IsAlertFeature(feature) ==
    HasKey(feature, "properties") /\ feature.v["properties"].t = "obj"

WellFormed(period) == \A key \in PeriodKeys : HasKey(period, key)

PeriodLines(period) ==
    << PyStr(period.v["name"]) \o ":",
       "  Temperature: " \o PyStr(period.v["temperature"]) \o "°"
            \o PyStr(period.v["temperatureUnit"]),
       "  Wind: " \o PyStr(period.v["windSpeed"]) \o " " \o PyStr(period.v["windDirection"]),
       "  Forecast: " \o PyStr(period.v["detailedForecast"]) >>

\* text is the blocks, each of size lines, with one "---" line between two
\* consecutive blocks and none elsewhere ("" for no block)
BlocksOf(text, blocks, size) ==
    LET n == Len(blocks) IN
    IF n = 0 THEN text = <<"">>
    ELSE /\ Len(text) = n * size + (n - 1)
         /\ \A j \in 1..n :
                SubSeq(text, (j - 1) * (size + 1) + 1, (j - 1) * (size + 1) + size) = blocks[j]
         /\ \A j \in 1..(n - 1) : text[j * (size + 1)] = "---"
         /\ Cardinality({l \in 1..Len(text) : text[l] = "---"}) = n - 1

\* C1 as stated: absence or no features key gives the "unable" message, an
\* empty features sequence gives the "no active alerts" message, the two
\* differ, and each is returned only in its own case.
C1_AsStated ==
    \A i \in Inv : (Alerts(i) /\ Ended(i)) =>
        LET unable == "Unable to fetch alerts or no alerts found."
            none == "No active alerts for this state."
            nokey == Absent(i, 1) \/ ~HasKey(Body(i, 1), "features")
            empty == Decoded(i, 1) /\ HasKey(Body(i, 1), "features")
                     /\ Body(i, 1).v["features"] = JArr(<<>>)
        IN /\ nokey => Returned(i, unable)
           /\ empty => Returned(i, none)
           /\ unable # none
           /\ Returned(i, unable) => nokey
           /\ Returned(i, none) => empty

\* C1 amended: the "no active alerts" message is returned exactly when the
\* features key is present with a falsy value (an empty sequence, or null),
\* the "unable" message exactly on absence or a mapping without the key.
C1_AlertMessages ==
    \A i \in Inv : (Alerts(i) /\ Ended(i)) =>
        LET unable == "Unable to fetch alerts or no alerts found."
            none == "No active alerts for this state."
            nokey == Absent(i, 1) \/ ~HasKey(Body(i, 1), "features")
            empty == Decoded(i, 1) /\ HasKey(Body(i, 1), "features")
                     /\ Body(i, 1).v["features"] \in {JArr(<<>>), JNull}
        IN /\ nokey => Returned(i, unable)
           /\ empty => Returned(i, none)
           /\ unable # none
           /\ Returned(i, unable) => nokey
           /\ Returned(i, none) => empty

C1_Witness ==
    \E i \in Inv :
        /\ Alerts(i) /\ arg[i] = <<"CA">> /\ Decoded(i, 1)
        /\ Body(i, 1) = JObj("features" :> JArr(<<>>))
        /\ Returned(i, "No active alerts for this state.")

\* C2: the forecast fetch is issued only after the points fetch has
\* completed with present data, to the URL that data names; a points fetch
\* that yields absence ends the invocation with the "unable to fetch
\* forecast data" message and no second fetch.
C2_PointsGateForecast ==
    \A i \in Inv : Forecast(i) =>
        /\ Len(reqs[i]) \in 1..2
        /\ reqs[i][1] = "https://api.weather.gov/points/" \o arg[i][1] \o "," \o arg[i][2]
        /\ Len(reqs[i]) = 2 =>
              /\ Decoded(i, 1) /\ Truthy(Body(i, 1))
              /\ <<i, 1>> \notin open
              /\ reqs[i][2] = Body(i, 1).v["properties"].v["forecast"].v
        /\ Absent(i, 1) => Len(reqs[i]) = 1
        /\ (Absent(i, 1) /\ pc[i] # "closing") =>
              Returned(i, "Unable to fetch forecast data for this location.")

C2_Witness ==
    \E i \in Inv :
        /\ Forecast(i) /\ arg[i] = <<"39.7456", "-97.0892">> /\ Absent(i, 1)
        /\ Returned(i, "Unable to fetch forecast data for this location.")
        /\ Len(reqs[i]) = 1

\* C3: with both fetches successful and n well-formed periods, the result
\* is the blocks of the first min(n, 5) periods in the order received, with
\* min(n, 5) - 1 separator lines between them (the empty string for n = 0).
C3_FirstFivePeriods ==
    \A i \in Inv : (Forecast(i) /\ Ended(i) /\ Decoded(i, 1) /\ Decoded(i, 2)) =>
        ((~Lacks(Body(i, 2), "properties", "periods")
          /\ \A n \in 1..Len(Body(i, 2).v["properties"].v["periods"].v) :
                WellFormed(Body(i, 2).v["properties"].v["periods"].v[n])) =>
            LET periods == Body(i, 2).v["properties"].v["periods"].v
                m == IF Len(periods) < 5 THEN Len(periods) ELSE 5
            IN /\ pc[i] = "done" /\ result[i].k = "text"
               /\ BlocksOf(result[i].text, [j \in 1..m |-> PeriodLines(periods[j])], 4))

C3_Witness ==
    \E i \in Inv :
        /\ Forecast(i) /\ pc[i] = "done" /\ Decoded(i, 2)
        /\ ~Lacks(Body(i, 2), "properties", "periods")
        /\ Len(Body(i, 2).v["properties"].v["periods"].v) = 7
        /\ Len(result[i].text) = 24
        /\ Cardinality({l \in 1..24 : result[i].text[l] = "---"}) = 4

\* C4: a fetch that fails (non-2xx status, transport fault, timeout, body
\* that does not decode) hands absence to its caller and raises nothing,
\* and the invocation ends by returning the fixed message of that fetch.
C4_FailuresAbsorbed ==
    \A i \in Inv :
        LET last == Len(got[i]) IN
        (last >= 1 /\ Absent(i, last)) =>
            /\ pc[i] \in {"closing", "done"}
            /\ pc[i] = "closing" => ret[i] = [t |-> "null"]
            /\ (pc[i] = "done" /\ Alerts(i)) =>
                    Returned(i, "Unable to fetch alerts or no alerts found.")
            /\ (pc[i] = "done" /\ Forecast(i) /\ last = 1) =>
                    Returned(i, "Unable to fetch forecast data for this location.")
            /\ (pc[i] = "done" /\ Forecast(i) /\ last = 2) =>
                    Returned(i, "Unable to fetch detailed forecast.")

C4_Witness ==
    \E i \in Inv :
        /\ Forecast(i) /\ Len(got[i]) = 2
        /\ got[i][2] = Http(200, Undecodable)
        /\ Returned(i, "Unable to fetch detailed forecast.")

\* C5: for a feature record with any subset of its five fields present,
\* format_alert returns the five lines Event, Area, Severity, Description,
\* Instructions, each field shown with its own value or with its default.
C5_FormatAlertTotal ==
    \A i \in Inv : (Alerts(i) /\ Ended(i) /\ Decoded(i, 1)) =>
        \A f \in AllFeatures :
            (IsAlertFeature(f) /\ Body(i, 1) = JObj("features" :> JArr(<<f>>))) =>
                /\ pc[i] = "done" /\ result[i].k = "text"
                /\ Len(result[i].text) = 5
                /\ result[i].text = AlertLines(f)

C5_Witness ==
    \E i \in Inv :
        /\ Alerts(i) /\ pc[i] = "done" /\ Decoded(i, 1)
        /\ Body(i, 1) = JObj("features" :> JArr(<<JObj("properties" :> EmptyDict)>>))
        /\ result[i].text = << "Event: Unknown", "Area: Unknown", "Severity: Unknown",
                               "Description: No description available",
                               "Instructions: No specific instructions provided" >>

\* C6 as stated: a decoded points mapping without properties.forecast, or a
\* decoded forecast mapping without properties.periods or with a formatted
\* period lacking a field, ends the invocation in a fault.
C6_AsStated ==
    \A i \in Inv : (Forecast(i) /\ Ended(i)) =>
        /\ (Decoded(i, 1) /\ Lacks(Body(i, 1), "properties", "forecast")) => Faulted(i)
        /\ (Decoded(i, 2) /\ Lacks(Body(i, 2), "properties", "periods")) => Faulted(i)
        /\ (Decoded(i, 2) /\ ~Lacks(Body(i, 2), "properties", "periods")) =>
              LET periods == Body(i, 2).v["properties"].v["periods"].v IN
              (\E n \in 1..Len(periods) : n <= 5 /\ ~WellFormed(periods[n])) => Faulted(i)

\* C6 amended: the same for a decoded mapping that is not empty; the empty
\* mapping is taken for absence and gives the "unable to fetch" message.
C6_ShapeViolationFaults ==
    \A i \in Inv : (Forecast(i) /\ Ended(i)) =>
        /\ (Decoded(i, 1) /\ Body(i, 1) # EmptyDict
                /\ Lacks(Body(i, 1), "properties", "forecast")) => Faulted(i)
        /\ (Decoded(i, 2) /\ Body(i, 2) # EmptyDict
                /\ Lacks(Body(i, 2), "properties", "periods")) => Faulted(i)
        /\ (Decoded(i, 2) /\ ~Lacks(Body(i, 2), "properties", "periods")) =>
              LET periods == Body(i, 2).v["properties"].v["periods"].v IN
              (\E n \in 1..Len(periods) : n <= 5 /\ ~WellFormed(periods[n])) => Faulted(i)
        /\ (Decoded(i, 1) /\ Body(i, 1) = EmptyDict) =>
              Returned(i, "Unable to fetch forecast data for this location.")
        /\ (Decoded(i, 2) /\ Body(i, 2) = EmptyDict) =>
              Returned(i, "Unable to fetch detailed forecast.")

C6_Witness ==
    \E i \in Inv :
        /\ Forecast(i) /\ Faulted(i) /\ Decoded(i, 2)
        /\ ~Lacks(Body(i, 2), "properties", "periods")
        /\ LET periods == Body(i, 2).v["properties"].v["periods"].v IN
           /\ Len(periods) = 7
           /\ ~HasKey(periods[5], "windDirection")

\* C7: a non-empty features sequence of k feature records gives exactly k
\* blocks, the j-th being format_alert of the j-th feature received, with one
\* separator line between consecutive blocks and none before or after.
C7_AlertsInOrder ==
    \A i \in Inv : (Alerts(i) /\ Ended(i) /\ Decoded(i, 1)) =>
        ((HasKey(Body(i, 1), "features") /\ Body(i, 1).v["features"].t = "arr"
          /\ Len(Body(i, 1).v["features"].v) >= 1
          /\ \A n \in 1..Len(Body(i, 1).v["features"].v) :
                IsAlertFeature(Body(i, 1).v["features"].v[n])) =>
            LET features == Body(i, 1).v["features"].v IN
            /\ pc[i] = "done" /\ result[i].k = "text"
            /\ BlocksOf(result[i].text, [j \in 1..Len(features) |-> AlertLines(features[j])], 5))

C7_Witness ==
    \E i \in Inv :
        /\ Alerts(i) /\ pc[i] = "done" /\ Decoded(i, 1)
        /\ HasKey(Body(i, 1), "features") /\ Body(i, 1).v["features"].t = "arr"
        /\ LET features == Body(i, 1).v["features"].v IN
           /\ Len(features) = 3
           /\ features[1] = features[3] /\ features[1] # features[2]
           /\ Len(result[i].text) = 17
           /\ result[i].text[6] = "---" /\ result[i].text[12] = "---"

\* What an invocation does when it runs alone on the same argument and the
\* same replies: the URLs it requests and how it ends.
AloneRequests(t, a, replies) ==
    CASE t = "get_alerts" -> <<AlertsUrl(a[1])>>
      [] t = "get_forecast" ->
            IF Len(replies) >= 1 /\ ForecastAfterPoints(MakeNwsRequest(replies[1])).k = "fetch"
            THEN <<PointsUrl(a), ForecastAfterPoints(MakeNwsRequest(replies[1])).url>>
            ELSE <<PointsUrl(a)>>
      [] OTHER -> <<>>

AloneOutcome(t, a, replies) ==
    CASE t = "get_alerts" -> AlertsBody(MakeNwsRequest(replies[1]))
      [] t = "get_forecast" ->
            IF Len(replies) = 1 THEN ForecastAfterPoints(MakeNwsRequest(replies[1]))
            ELSE ForecastBody(MakeNwsRequest(replies[2]))
      [] OTHER -> Return(PlanTheEvening(a[1]))

\* the slots of the state that belong to invocation i
Own(i) == <<pc[i], tool[i], arg[i], reqs[i], got[i], ret[i], result[i],
            {c \in open : c[1] = i}>>

\* C8: under every interleaving each invocation requests and ends as it
\* would alone on its own argument and replies, whatever the others do
\* (fail, fault, still run), and a step of one invocation leaves everything
\* of the others as it was.
C8_Independent ==
    /\ [](\A i \in Inv :
            /\ pc[i] \notin {"idle", "closing"} =>
                    reqs[i] = AloneRequests(tool[i], arg[i], got[i])
            /\ Ended(i) => result[i] = AloneOutcome(tool[i], arg[i], got[i]))
    /\ [][\E i \in Inv : \A j \in Inv \ {i} : Own(j)' = Own(j)]_vars

C8_Witness ==
    \E i \in Inv, j \in Inv :
        /\ i # j
        /\ Forecast(i) /\ Faulted(i)
        /\ Forecast(j) /\ pc[j] = "closing" /\ Len(got[j]) = 2 /\ Absent(j, 2)
        /\ got[i][1] # got[j][1]

\* C9: the open connections are exactly those of the fetches in flight, one
\* per invocation that is inside make_nws_request; once a fetch has
\* returned, with data or with absence, its connection is closed.
C9_ConnectionsClosed ==
    /\ open = {<<i, Len(reqs[i])>> : i \in {j \in Inv : pc[j] \in {"await_get", "closing"}}}
    /\ \A i \in Inv : Ended(i) => \A c \in open : c[1] # i
    /\ \A i \in Inv : \A k \in 1..Len(got[i]) :
            (k < Len(got[i]) \/ pc[i] # "closing") => <<i, k>> \notin open

C9_Witness ==
    \E i \in Inv, j \in Inv :
        /\ i # j
        /\ pc[i] = "done" /\ Absent(i, 1)
        /\ pc[j] = "await_get" /\ Len(reqs[j]) = 2
        /\ open = {<<j, 2>>}

\* C10: every invocation that started eventually ends; get_alerts requests
\* once, get_forecast once when the points lookup yields absence and at most
\* twice otherwise, plan_the_evening never, and nothing is requested after a
\* fetch that yielded absence.
C10_BoundedFetches ==
    /\ [](\A i \in Inv :
            /\ Len(got[i]) <= Len(reqs[i])
            /\ Alerts(i) => Len(reqs[i]) = 1
            /\ Forecast(i) => Len(reqs[i]) \in 1..2
            /\ (Forecast(i) /\ Absent(i, 1)) => Len(reqs[i]) = 1
            /\ tool[i] = "plan_the_evening" => (reqs[i] = <<>> /\ pc[i] = "done")
            /\ \A k \in 1..Len(got[i]) : Failed(got[i][k]) => Len(reqs[i]) = k)
    /\ \A i \in Inv : (pc[i] # "idle") ~> Ended(i)

C10_Witness ==
    \E i \in Inv :
        /\ Forecast(i) /\ Ended(i) /\ Len(reqs[i]) = 2 /\ Len(got[i]) = 2
        /\ reqs[i][1] # reqs[i][2]

====
